---------------------------- MODULE Spec2Model ----------------------------
(***************************************************************************)
(* Model of braindecode/models/util.py:                                    *)
(*   - to_dense_prediction_model : in-place stride -> dilation rewrite of  *)
(*     the modules of a network, in traversal order;                       *)
(*   - _pad_shift_array / aggregate_probas : zero-pad, re-stride and sum   *)
(*     the log-probabilities of overlapping sequences.                     *)
(*                                                                         *)
(* Spec    : calls of to_dense_prediction_model on a module graph.         *)
(* SpecAgg : calls of aggregate_probas / _pad_shift_array on an array.     *)
(***************************************************************************)
EXTENDS Integers, Sequences, FiniteSets

VARIABLES
    model,          \* the modules of the graph, in model.modules() order
    before,         \* the graph as it was when the most recent call started
    axis,           \* the axis argument of the most recent call
    statuses,       \* outcome of every call made so far, oldest first
    stride_so_far,  \* value of the local stride_so_far when the call ended
    failedAt,       \* index of the module whose dilation assert fired, or 0
    x,              \* the array handed to aggregate_probas / _pad_shift_array
    stride,         \* the stride / n_windows_stride argument
    pc,             \* "start" | "aggregate_probas" | "_pad_shift_array"
    result          \* what the call produced

vars == <<model, before, axis, statuses, stride_so_far, failedAt,
          x, stride, pc, result>>

denseVars == <<model, before, axis, statuses, stride_so_far, failedAt>>
aggVars == <<x, stride, pc, result>>

(***************************************************************************)
(* Bounds of the model.                                                    *)
(***************************************************************************)
MaxModules == 3
MaxCalls == 2

\* Python values an attribute or an argument can hold: no attribute at all,
\* a plain int (no __len__), or a tuple.
Absent == [kind |-> "absent", v |-> <<>>]
Scalar(n) == [kind |-> "int", v |-> <<n>>]
Pair(a, b) == [kind |-> "tuple", v |-> <<a, b>>]

HasAttr(a) == a.kind # "absent"
HasLen(a) == a.kind = "tuple"

\* The modules a graph is built from: every way of exposing stride and
\* dilation (neither, one, both), each as a plain int or as a pair, with unit
\* and non-unit strides on either axis, and one module built with a non-unit
\* dilation.
Module(s, d) == [stride |-> s, dilation |-> d]
Modules ==
    {Module(Absent, Absent),
     Module(Scalar(2), Absent),
     Module(Pair(1, 3), Absent),
     Module(Absent, Scalar(1)),
     Module(Scalar(2), Scalar(1)),
     Module(Pair(3, 1), Scalar(1)),
     Module(Pair(1, 1), Pair(1, 1)),
     Module(Pair(1, 2), Pair(1, 1)),
     Module(Pair(2, 1), Pair(1, 1)),
     Module(Pair(1, 1), Pair(1, 2))}

Graphs == UNION {[1..n -> Modules] : n \in 1..MaxModules}

\* Values of the axis argument: the three documented ones, and arguments
\* holding a value outside {2, 3}.
AxisArgs == {Scalar(2), Scalar(3), Pair(2, 3), Scalar(1), Scalar(4), Pair(2, 4)}

(***************************************************************************)
(* to_dense_prediction_model                                               *)
(***************************************************************************)

\* if not hasattr(axis, "__len__"): axis = [axis]
AxisList(a) == IF ~HasLen(a) THEN <<a.v[1]>> ELSE a.v

\* all([ax in [2, 3] for ax in axis])
\* (faulty variant: any() in place of all())
AnyAxisAllowed(a) == \E k \in DOMAIN AxisList(a) : AxisList(a)[k] \in {2, 3}

AxisAllowed(a) == \A k \in DOMAIN AxisList(a) : AxisList(a)[k] \in {2, 3}

\* axis = np.array(axis) - 2, as the set of 1-based positions it selects
Selected(a) == {AxisList(a)[k] - 2 + 1 : k \in DOMAIN AxisList(a)}

\* module.dilation == 1 or module.dilation == (1, 1)
\* (faulty variant: only the int form accepted)
ScalarOnlyUnit(d) == d = Scalar(1)

DilationIsUnit(d) == d = Scalar(1) \/ d = Pair(1, 1)

\* new_dilation = [1, 1]; for ax in axis: new_dilation[ax] = stride_so_far[ax]
NewDilation(sel, ssf) ==
    Pair(IF 1 \in sel THEN ssf[1] ELSE 1, IF 2 \in sel THEN ssf[2] ELSE 1)

\* if not hasattr(module.stride, "__len__"): module.stride = (stride, stride)
PairOf(s) == IF ~HasLen(s) THEN Pair(s.v[1], s.v[1]) ELSE s

\* new_stride = list(module.stride); for ax in axis: new_stride[ax] = 1
\* (faulty variants: stride left as it was; stride forced to 1 on every axis)
NewStrideKept(sel, s) == s
NewStrideAll(sel, s) == Pair(1, 1)

NewStride(sel, s) ==
    Pair(IF 1 \in sel THEN 1 ELSE s.v[1], IF 2 \in sel THEN 1 ELSE s.v[2])

\* stride_so_far *= np.array(module.stride).  The int64 wrap-around of the
\* numpy product is out of reach of the strides and graph lengths drawn here.
Accumulate(ssf, s) == <<ssf[1] * s.v[1], ssf[2] * s.v[2]>>

\* (faulty variant: the module's own stride is folded in before its dilation
\* is computed)
VisitStrideFirst(m, sel, ssf) ==
    LET s == IF HasAttr(m.stride) THEN PairOf(m.stride) ELSE Pair(1, 1)
        acc == Accumulate(ssf, s)
    IN  IF HasAttr(m.dilation) /\ ~DilationIsUnit(m.dilation)
        THEN [ok |-> FALSE, module |-> m, ssf |-> ssf]
        ELSE [ok |-> TRUE,
              module |-> [stride |-> IF HasAttr(m.stride)
                                     THEN NewStride(sel, s) ELSE m.stride,
                          dilation |-> IF HasAttr(m.dilation)
                                       THEN NewDilation(sel, acc)
                                       ELSE m.dilation],
              ssf |-> acc]

\* One iteration of the loop body on module m: the dilation block (lines
\* 39-47), then the stride block (lines 48-55).
Visit(m, sel, ssf) ==
    IF HasAttr(m.dilation) /\ ~DilationIsUnit(m.dilation)
    THEN [ok |-> FALSE, module |-> m, ssf |-> ssf]
    ELSE LET d == IF HasAttr(m.dilation)
                  THEN NewDilation(sel, ssf) ELSE m.dilation
         IN  IF HasAttr(m.stride)
             THEN LET s == PairOf(m.stride)
                  IN  [ok |-> TRUE,
                       module |-> [stride |-> NewStride(sel, s),
                                   dilation |-> d],
                       ssf |-> Accumulate(ssf, s)]
             ELSE [ok |-> TRUE,
                   module |-> [stride |-> m.stride, dilation |-> d],
                   ssf |-> ssf]

\* for module in model.modules(): ... , from module k on
RECURSIVE Walk(_, _, _, _)
Walk(mods, sel, k, ssf) ==
    IF k > Len(mods)
    THEN [ok |-> TRUE, mods |-> mods, ssf |-> ssf, at |-> 0]
    ELSE LET r == Visit(mods[k], sel, ssf)
         IN  IF ~r.ok
             THEN [ok |-> FALSE, mods |-> mods, ssf |-> ssf, at |-> k]
             ELSE Walk([mods EXCEPT ![k] = r.module], sel, k + 1, r.ssf)

\* (faulty variant: a failed traversal restores the graph)
TraverseRollback(mods, sel) ==
    LET w == Walk(mods, sel, 1, <<1, 1>>)
    IN  IF w.ok THEN w ELSE [w EXCEPT !.mods = mods]

\* The traversal of a whole graph, stride_so_far = np.array([1, 1]) at entry.
Traverse(mods, sel) == Walk(mods, sel, 1, <<1, 1>>)

\* to_dense_prediction_model(model, axis=a).  When the axis assert fires the
\* local stride_so_far does not exist yet; the variable is reset to (1, 1).
to_dense_prediction_model(a) ==
    /\ Len(statuses) < MaxCalls
    /\ before' = model
    /\ axis' = a
    /\ IF ~AxisAllowed(a)
       THEN /\ statuses' = Append(statuses, "axis_assert")
            /\ model' = model
            /\ stride_so_far' = <<1, 1>>
            /\ failedAt' = 0
       ELSE LET w == Traverse(model, Selected(a))
            IN  /\ statuses' = Append(statuses,
                       IF w.ok THEN "returned" ELSE "dilation_assert")
                /\ model' = w.mods
                /\ stride_so_far' = w.ssf
                /\ failedAt' = w.at
    /\ UNCHANGED aggVars

InitDense ==
    /\ model \in Graphs
    /\ before = model
    /\ axis = Absent
    /\ statuses = <<>>
    /\ stride_so_far = <<1, 1>>
    /\ failedAt = 0
    /\ x = <<>>
    /\ stride = 1
    /\ pc = "unused"
    /\ result = <<>>

Next == \E a \in AxisArgs : to_dense_prediction_model(a)

Spec == InitDense /\ [][Next]_vars

(***************************************************************************)
(* _pad_shift_array and aggregate_probas                                   *)
(*                                                                         *)
(* Arrays are functions over 0-based indices.  Scores and log-probabilities*)
(* are integers in units of ln 2: log_softmax(v ln 2) / ln 2 =             *)
(* v - log2(sum 2^v), which is exact on the score vectors drawn here.      *)
(* Memory is counted in items, not bytes.                                  *)
(***************************************************************************)
MaxSequences == 3
MaxClasses == 3
MaxWindows == 2
MaxWindowStride == 2
MaxLogit == 1
MaxRank == 4

RECURSIVE Pow2(_)
Pow2(k) == IF k = 0 THEN 1 ELSE 2 * Pow2(k - 1)

RECURSIVE IsPow2(_)
IsPow2(n) == n = 1 \/ (n > 1 /\ n % 2 = 0 /\ IsPow2(n \div 2))

RECURSIVE Log2(_)
Log2(n) == IF n <= 1 THEN 0 ELSE 1 + Log2(n \div 2)

\* f[0] + ... + f[n - 1]
RECURSIVE SumTo(_, _)
SumTo(f, n) == IF n = 0 THEN 0 ELSE f[n - 1] + SumTo(f, n - 1)

Max(S) == CHOOSE m \in S : \A n \in S : n <= m

\* Class-score vectors whose softmax normaliser is a power of two.
ScoreVectors(C) ==
    {v \in [0..(C - 1) -> 0..MaxLogit] :
        IsPow2(SumTo([c \in 0..(C - 1) |-> Pow2(v[c])], C))}

\* A 3-D array of logits: the window at position j of sequence i carries the
\* scores v rotated by i * W + j classes, so that cells differ.
Logits(S, C, W, v) ==
    [i \in 0..(S - 1) |-> [c \in 0..(C - 1) |-> [j \in 0..(W - 1) |->
        v[(c + i * W + j) % C]]]]

\* An ndarray: rank, shape, memory order (C: last index fastest, F: first
\* index fastest) and, for rank 3, its elements.
Arrays3D ==
    UNION {UNION {UNION {
        {[ndim |-> 3, shape |-> <<S, C, W>>, order |-> o,
          data |-> Logits(S, C, W, v)] :
              o \in {"C", "F"}, v \in ScoreVectors(C)} :
        W \in 1..MaxWindows} : C \in 1..MaxClasses} : S \in 1..MaxSequences}

ArraysOtherRank ==
    {[ndim |-> n, shape |-> [k \in 1..n |-> 2], order |-> "C", data |-> <<>>] :
        n \in (0..MaxRank) \ {3}}

\* scipy.special.log_softmax of one class-score vector v of length C
LogSoftmaxVector(v, C) ==
    LET x_max == Max({v[c] : c \in 0..(C - 1)})
        tmp == [c \in 0..(C - 1) |-> v[c] - x_max]
        exp_tmp == [c \in 0..(C - 1) |-> Pow2(MaxLogit + tmp[c])]
        out == Log2(SumTo(exp_tmp, C)) - MaxLogit
    IN  [c \in 0..(C - 1) |-> tmp[c] - out]

\* log_softmax(logits, axis=1) of a 3-D array
log_softmax(a, shape) ==
    [i \in 0..(shape[1] - 1) |-> [c \in 0..(shape[2] - 1) |->
        [j \in 0..(shape[3] - 1) |->
            LogSoftmaxVector([k \in 0..(shape[2] - 1) |-> a[i][k][j]],
                             shape[2])[c]]]]

\* log_softmax(..., axis=1) needs an axis 1
AxisInBounds(ndim) == ndim >= 2

\* if x.ndim != 3: raise NotImplementedError
RankCheck(ndim) == IF ndim # 3 THEN "NotImplementedError" ELSE "none"

\* (faulty variant: one stride of padding per row, the first included)
PadWidthAllRows(shape, r) == shape[1] * r

\* (x.shape[0] - 1) * stride
PadWidth(shape, r) == (shape[1] - 1) * r

\* np.pad(x, ((0, 0), (0, 0), (0, n))): zeros appended on the last axis
Pad(a, shape, n) ==
    [i \in 0..(shape[1] - 1) |-> [c \in 0..(shape[2] - 1) |->
        [j \in 0..(shape[3] + n - 1) |->
            IF j < shape[3] THEN a[i][c][j] ELSE 0]]]

\* np.pad allocates Fortran-ordered output for an input that is Fortran- and
\* not also C-contiguous, C-ordered output otherwise.  An F-ordered array is
\* also C-contiguous when at most one of its dimensions exceeds 1.
PadOrder(order, shape) ==
    IF order = "F" /\ Cardinality({k \in 1..3 : shape[k] > 1}) > 1
    THEN "F" ELSE "C"

\* x_padded.strides, in items
Strides(order, shape) ==
    IF order = "C" THEN <<shape[2] * shape[3], shape[3], 1>>
                   ELSE <<1, shape[1], shape[1] * shape[2]>>

\* new_strides = (orig[0] - stride * orig[2], orig[1], orig[2])
NewStrides(orig, r) == <<orig[1] - r * orig[3], orig[2], orig[3]>>

\* The element of array a (memory order `order`) stored at flat offset off.
BufferAt(a, order, shape, off) ==
    IF order = "C"
    THEN a[off \div (shape[2] * shape[3])][(off \div shape[3]) % shape[2]]
          [off % shape[3]]
    ELSE a[off % shape[1]][(off \div shape[1]) % shape[2]]
          [off \div (shape[1] * shape[2])]

\* What element (i, c, j) of as_strided(x_padded, strides=st) reads: the
\* buffer cell at i*st[0] + c*st[1] + j*st[2], or, outside the buffer,
\* whatever memory holds there (g).
ViewOffset(st, i, c, j) == i * st[1] + c * st[2] + j * st[3]
InBuffer(shape, off) == off >= 0 /\ off < shape[1] * shape[2] * shape[3]


\* Values a read outside the padded buffer can yield.
Garbage == {-4, 0, 4}

\* The body of _pad_shift_array on a 3-D array a, and the elements its
\* result yields when read.
PadShift(a, shape, order, r, g) ==
    LET n == PadWidth(shape, r)
        x_padded == Pad(a, shape, n)
        pshape == <<shape[1], shape[2], shape[3] + n>>
        porder == PadOrder(order, shape)
        new_strides == NewStrides(Strides(porder, pshape), r)
    IN  [exc |-> "none",
         x_padded |-> x_padded,
         order |-> porder,
         strides |-> new_strides,
         view |-> [i \in DOMAIN x_padded |-> [c \in DOMAIN x_padded[i] |->
                      [j \in DOMAIN x_padded[i][c] |->
                          LET off == ViewOffset(new_strides, i, c, j)
                          IN  IF InBuffer(pshape, off)
                              THEN BufferAt(x_padded, porder, pshape, off)
                              ELSE g]]]]

\* view.sum(axis=0).T
SumAxis0T(view) ==
    [t \in DOMAIN view[0][0] |-> [c \in DOMAIN view[0] |->
        SumTo([i \in DOMAIN view |-> view[i][c][t]], Cardinality(DOMAIN view))]]

\* _pad_shift_array(x, stride), called on x directly
pad_shift_array(g) ==
    /\ pc = "start"
    /\ pc' = "_pad_shift_array"
    /\ result' = IF RankCheck(x.ndim) # "none"
                 THEN [exc |-> RankCheck(x.ndim)]
                 ELSE PadShift(x.data, x.shape, x.order, stride, g)
    /\ UNCHANGED <<x, stride>>
    /\ UNCHANGED denseVars

\* aggregate_probas(logits=x, n_windows_stride=stride).  log_softmax is
\* elementwise apart from the reduction, so its result keeps x's memory order.
aggregate_probas(g) ==
    /\ pc = "start"
    /\ pc' = "aggregate_probas"
    /\ result' =
           IF ~AxisInBounds(x.ndim) THEN [exc |-> "AxisError"]
           ELSE IF RankCheck(x.ndim) # "none"
           THEN [exc |-> RankCheck(x.ndim)]
           ELSE LET log_probas == log_softmax(x.data, x.shape)
                    ps == PadShift(log_probas, x.shape, x.order, stride, g)
                IN  [exc |-> "none",
                     log_probas |-> log_probas,
                     x_padded |-> ps.x_padded,
                     order |-> ps.order,
                     strides |-> ps.strides,
                     view |-> ps.view,
                     out |-> SumAxis0T(ps.view)]
    /\ UNCHANGED <<x, stride>>
    /\ UNCHANGED denseVars

InitAgg ==
    /\ x \in Arrays3D \cup ArraysOtherRank
    /\ stride \in 1..MaxWindowStride
    /\ pc = "start"
    /\ result = <<>>
    /\ model = <<>>
    /\ before = <<>>
    /\ axis = Absent
    /\ statuses = <<>>
    /\ stride_so_far = <<1, 1>>
    /\ failedAt = 0

NextAgg ==
    \/ \E g \in Garbage : aggregate_probas(g)
    \/ \E g \in Garbage : pad_shift_array(g)

SpecAgg == InitAgg /\ [][NextAgg]_vars

(***************************************************************************)
(* Properties of to_dense_prediction_model, stated on the graph `before`   *)
(* the call and the graph `model` after it.                                *)
(***************************************************************************)
Called == statuses # <<>>
LastStatus == statuses[Len(statuses)]

\* The axes (as positions 1, 2 of a stride / dilation pair) the argument of
\* the most recent call names: axis 2 is position 1, axis 3 is position 2.
ArgValues == {axis.v[i] : i \in DOMAIN axis.v}
ArgAxes == {n - 1 : n \in ArgValues}

\* The stride of module m on axis position p, a plain int counting for both.
StrideOn(m, p) == IF m.stride.kind = "int" THEN m.stride.v[1] ELSE m.stride.v[p]

\* Product of the strides on position p of the stride-bearing modules 1..k.
RECURSIVE StrideProduct(_, _, _)
StrideProduct(g, k, p) ==
    IF k = 0 THEN 1
    ELSE (IF HasAttr(g[k].stride) THEN StrideOn(g[k], p) ELSE 1)
         * StrideProduct(g, k - 1, p)

NonUnit(d) == HasAttr(d) /\ d # Scalar(1) /\ d # Pair(1, 1)

\* C1: after a successful conversion every dilation-bearing module's dilation
\* on each selected axis is the product of the original strides on that axis
\* of the stride-bearing modules strictly earlier in traversal order (1 if
\* none), its own stride excluded, modules without dilation included.
C1_DilationIsUpstreamStrideProduct ==
    (Called /\ LastStatus = "returned") =>
        \A k \in DOMAIN model :
            HasAttr(before[k].dilation) =>
                /\ model[k].dilation.kind = "tuple"
                /\ \A p \in ArgAxes :
                       model[k].dilation.v[p] = StrideProduct(before, k - 1, p)

\* C1 witness: a module with its own stride > 1 receives dilation >= 4 from
\* two earlier striding modules, one of which has no dilation attribute.
C1_Witness ==
    /\ Len(statuses) = 1 /\ LastStatus = "returned"
    /\ \E k \in DOMAIN model : \E j \in 1..(k - 1) : \E p \in ArgAxes :
           /\ HasAttr(before[k].dilation) /\ HasAttr(before[k].stride)
           /\ StrideOn(before[k], p) > 1
           /\ HasAttr(before[j].stride) /\ ~HasAttr(before[j].dilation)
           /\ StrideOn(before[j], p) > 1
           /\ model[k].dilation.v[p] >= 4

\* C2: after a successful conversion with axes (2, 3) every stride-bearing
\* module has stride 1 on both axes, whatever it was before.
C2_StridesEliminated ==
    (Called /\ LastStatus = "returned" /\ axis = Pair(2, 3)) =>
        \A k \in DOMAIN model :
            HasAttr(before[k].stride) => model[k].stride = Pair(1, 1)

\* C2 witness: a scalar stride without dilation and a pair stride with
\* dilation, both non-unit, were converted with axes (2, 3).
C2_Witness ==
    /\ Called /\ LastStatus = "returned" /\ axis = Pair(2, 3)
    /\ \E k \in DOMAIN model :
           before[k].stride = Scalar(2) /\ ~HasAttr(before[k].dilation)
    /\ \E k \in DOMAIN model :
           before[k].stride = Pair(1, 2) /\ HasAttr(before[k].dilation)

\* C3 as stated: a second conversion (with valid axes) of a graph whose first
\* conversion succeeded raises the dilation assertion.
C3_SecondCallAlwaysRaises ==
    (Len(statuses) >= 2 /\ statuses[1] = "returned"
                        /\ statuses[2] # "axis_assert") =>
        statuses[2] = "dilation_assert"

\* C3 amended: the second conversion raises the dilation assertion exactly
\* when the first one left some dilation-bearing module with a non-unit
\* dilation; otherwise it succeeds.
C3_SecondCallRaisesIffDilated ==
    (Len(statuses) = 2 /\ statuses[1] = "returned"
                       /\ statuses[2] # "axis_assert") =>
        /\ statuses[2] \in {"returned", "dilation_assert"}
        /\ statuses[2] = "dilation_assert" <=>
               \E k \in DOMAIN before : NonUnit(before[k].dilation)

\* C3 witness: a first call succeeded and the second raised on the dilation
\* the first one wrote.
C3_Witness ==
    /\ statuses = <<"returned", "dilation_assert">>
    /\ \E k \in DOMAIN before : NonUnit(before[k].dilation)

\* C6: an axis argument holding any value other than 2 or 3, alone or beside
\* a valid axis, fails with the axis assertion (and touches no module).
C6_InvalidAxisRejected ==
    (Called /\ ArgValues \ {2, 3} # {}) =>
        LastStatus = "axis_assert" /\ model = before

\* C6 witness: the pair (2, 4), holding one valid axis, was rejected.
C6_Witness ==
    Called /\ axis = Pair(2, 4) /\ LastStatus = "axis_assert"

\* C8: with a single selected axis the other axis b is untouched: strides on
\* b are the original ones, dilations on b are 1, and the cumulative stride
\* was still accumulated on both axes.
C8_OtherAxisUntouched ==
    (Called /\ LastStatus = "returned" /\ axis \in {Scalar(2), Scalar(3)}) =>
        \A b \in {1, 2} \ ArgAxes :
            /\ \A k \in DOMAIN model :
                   /\ HasAttr(before[k].stride) =>
                          model[k].stride.v[b] = StrideOn(before[k], b)
                   /\ HasAttr(before[k].dilation) =>
                          model[k].dilation.v[b] = 1
            /\ \A p \in {1, 2} :
                   stride_so_far[p] = StrideProduct(before, Len(before), p)

\* C8 witness: axis 2 alone was converted while a module striding on axis 3
\* sits upstream of a dilation-bearing module.
C8_Witness ==
    /\ Len(statuses) = 1 /\ LastStatus = "returned" /\ axis = Scalar(2)
    /\ stride_so_far[2] > 1
    /\ \E k \in DOMAIN model : \E j \in 1..(k - 1) :
           /\ HasAttr(before[j].stride) /\ StrideOn(before[j], 2) > 1
           /\ HasAttr(before[k].dilation)

\* The first module of g carrying a non-unit dilation (0 if none).
FirstNonUnit(g) ==
    IF \E k \in DOMAIN g : NonUnit(g[k].dilation)
    THEN CHOOSE k \in DOMAIN g :
             /\ NonUnit(g[k].dilation)
             /\ \A j \in 1..(k - 1) : ~NonUnit(g[j].dilation)
    ELSE 0

\* C9: when the conversion fails on module m's non-unit dilation nothing is
\* rolled back: the modules before m keep their rewritten dilation and
\* stride, m and the modules after it keep their original ones.
C9_NoRollback ==
    (Called /\ LastStatus = "dilation_assert") =>
        LET m == FirstNonUnit(before)
        IN  /\ m # 0 /\ failedAt = m
            /\ \A k \in m..Len(model) : model[k] = before[k]
            /\ \A k \in 1..(m - 1) :
                   /\ HasAttr(before[k].dilation) =>
                          model[k].dilation =
                              Pair(IF 1 \in ArgAxes
                                   THEN StrideProduct(before, k - 1, 1) ELSE 1,
                                   IF 2 \in ArgAxes
                                   THEN StrideProduct(before, k - 1, 2) ELSE 1)
                   /\ ~HasAttr(before[k].dilation) =>
                          model[k].dilation = Absent
                   /\ HasAttr(before[k].stride) =>
                          model[k].stride =
                              Pair(IF 1 \in ArgAxes
                                   THEN 1 ELSE StrideOn(before[k], 1),
                                   IF 2 \in ArgAxes
                                   THEN 1 ELSE StrideOn(before[k], 2))
                   /\ ~HasAttr(before[k].stride) =>
                          model[k].stride = Absent

\* C9 witness: the first call failed on a module built with a non-unit
\* dilation after an earlier module had been rewritten.
C9_Witness ==
    /\ Len(statuses) = 1 /\ LastStatus = "dilation_assert"
    /\ failedAt >= 2
    /\ \E k \in 1..(failedAt - 1) :
           /\ model[k].stride # before[k].stride
           /\ model[k].dilation # before[k].dilation

(***************************************************************************)
(* Properties of aggregate_probas and _pad_shift_array.                    *)
(***************************************************************************)
Returned == pc # "start" /\ result.exc = "none"

nS == x.shape[1]
nC == x.shape[2]
nW == x.shape[3]
DenseLength == (nS - 1) * stride + nW

\* Number of indices of a 0-based array level.
Extent(a) == Cardinality(DOMAIN a)
ZeroBased(a) == DOMAIN a = 0..(Extent(a) - 1)

\* The per-position accumulation loop: the sum over the sequences i covering
\* dense position t of logp[i][c][t - i*r].
CoveringSum(logp, t, c) ==
    SumTo([i \in 0..(nS - 1) |->
              IF i * stride <= t /\ t < i * stride + nW
              THEN logp[i][c][t - i * stride] ELSE 0], nS)

\* C4: for every 3-D input and stride, out[t, c] is the sum of
\* logp[i, c, t - i*r] over exactly the sequences i with i*r <= t < i*r + W
\* (0 where no sequence covers t): the strided view is equivalent to an
\* explicit per-position accumulation loop.
C4_EqualsAccumulationLoop ==
    (pc = "aggregate_probas" /\ result.exc = "none") =>
        \A t \in 0..(DenseLength - 1) : \A c \in 0..(nC - 1) :
            result.out[t][c] = CoveringSum(result.log_probas, t, c)

\* C5: the result of aggregate_probas has shape ((S-1)*r + W, C) and the
\* result of _pad_shift_array has shape (S, C, (S-1)*r + W).
C5_Shapes ==
    Returned =>
        /\ ZeroBased(result.view) /\ Extent(result.view) = nS
        /\ \A i \in DOMAIN result.view :
               /\ ZeroBased(result.view[i]) /\ Extent(result.view[i]) = nC
               /\ \A c \in DOMAIN result.view[i] :
                      /\ ZeroBased(result.view[i][c])
                      /\ Extent(result.view[i][c]) = DenseLength
        /\ pc = "aggregate_probas" =>
               /\ ZeroBased(result.out) /\ Extent(result.out) = DenseLength
               /\ \A t \in DOMAIN result.out :
                      /\ ZeroBased(result.out[t])
                      /\ Extent(result.out[t]) = nC

\* C5 witness: three sequences of two windows, stride 2, were aggregated
\* into 6 dense positions.
C5_Witness ==
    /\ pc = "aggregate_probas" /\ result.exc = "none"
    /\ nS = 3 /\ nW = 2 /\ nC = 2 /\ stride = 2
    /\ Extent(result.out) = 6

\* C7: aggregate_probas on an array whose rank is not 3 raises
\* NotImplementedError.
C7_RankRejected ==
    (pc = "aggregate_probas" /\ x.ndim # 3) =>
        result.exc = "NotImplementedError"

\* C10: every element (i, c, j) of the re-strided view reads flat offset
\* i*(C*L - r) + c*L + j of the padded buffer, which lies inside the buffer,
\* and whenever j < i*r the cell read is a zero-padding cell.
C10_ViewReadsStayInBuffer ==
    Returned =>
        LET L == DenseLength
        IN  \A i \in 0..(nS - 1) : \A c \in 0..(nC - 1) : \A j \in 0..(L - 1) :
                LET off == ViewOffset(result.strides, i, c, j)
                IN  /\ off = i * (nC * L - stride) + c * L + j
                    /\ off >= 0 /\ off < nS * nC * L
                    /\ j < i * stride => off % L >= nW

=============================================================================
